---------------------------- MODULE Spec2Model ----------------------------
(***************************************************************************)
(* The command handlers of the LUME desktop shell                          *)
(* (lume_desk/src-tauri/src/commands.rs), registered with the Tauri        *)
(* invoke handler in lib.rs.                                               *)
(*                                                                         *)
(* The handlers own no field, no static and no managed state: each one     *)
(* computes its Result from its arguments alone.  The only thing that      *)
(* evolves is what the frontend has observed, so the state of the model    *)
(* is the history of invocations, each with its arguments and the Result   *)
(* the handler returned.                                                   *)
(*                                                                         *)
(* A String is a sequence of characters, f64 values that the code only     *)
(* ever sets to 0.0 are the integer 0, and format!(...) is the tuple of    *)
(* its literal pieces and its arguments.                                   *)
(***************************************************************************)
EXTENDS Integers, Sequences, FiniteSets

VARIABLES history

vars == <<history>>

\* Longest sequence of invocations explored.
MaxCalls == 3

\* ------------------------------------------------------------------ inputs

\* show_data: String, as the frontend passes it (0, 1 and 2 bytes long).
ShowData == { <<>>, <<"a">>, <<"a", "b">> }

\* format: String of export_show; "pdf" stands for every unsupported format.
Formats == { "lume", "csv", "pdf" }

\* The values uuid::Uuid::new_v4() may produce.
ExportIds == { "uuid1", "uuid2" }

\* address: String of test_controller_connection.
Addresses == { "lume-base.local", "nowhere.invalid" }

\* ------------------------------------------------------------ Result<T, E>

Ok(v) == [ok |-> TRUE, value |-> v]

Err(e) == [ok |-> FALSE, error |-> e]

\* ------------------------------------------------------------------- types

\* struct ShowStatus: the values its fields can take in the model.
ShowStatus ==
    [ is_running : BOOLEAN,
      current_time : Int,
      total_duration : Int,
      active_effects : Seq(ShowData) ]

\* ---------------------------------------------------------------- handlers

\* After the invocations h a show is started, as the frontend sees it: some
\* start_show returned Ok and no stop_show followed it.
ShowStarted(h) ==
    \E i \in 1..Len(h) :
        /\ h[i].cmd = "start_show"
        /\ h[i].result.ok
        /\ \A k \in (i+1)..Len(h) : h[k].cmd # "stop_show"

\* A start_show that refuses to start while a show is started.
start_show_exclusive(show_data) ==
    IF ShowStarted(history)
    THEN Err(<<"InvalidStateTransition">>)
    ELSE Ok(<<"Show started with ", Len(show_data), " bytes of data">>)

\* start_show: logs, does nothing, and reports the length of its argument.
start_show(show_data) ==
    Ok(<<"Show started with ", Len(show_data), " bytes of data">>)

\* stop_show: logs and returns Ok(()).
stop_show == Ok(<<>>)

\* A get_show_status whose clock counts down with every invocation.
get_show_status_countdown ==
    Ok([ is_running |-> FALSE,
         current_time |-> 0 - Len(history),
         total_duration |-> 0,
         active_effects |-> <<>> ])

\* A get_show_status that lists every show ever started, stopped or not.
get_show_status_stale ==
    Ok([ is_running |-> FALSE,
         current_time |-> 0,
         total_duration |-> 0,
         active_effects |->
             SelectSeq([i \in 1..Len(history) |->
                            IF history[i].cmd = "start_show"
                            THEN history[i].args[1] ELSE <<"-">>],
                       LAMBDA d : d # <<"-">>) ])

\* get_show_status: the same literal snapshot on every call.
get_show_status ==
    Ok([ is_running |-> FALSE,
         current_time |-> 0,
         total_duration |-> 0,
         active_effects |-> <<>> ])

\* validate_show_data: the same three entries whatever the show data is.
validate_show_data(show_data) ==
    Ok([ timing_valid |-> TRUE,
         effects_valid |-> TRUE,
         controllers_available |-> FALSE ])

\* export_show: export_id is the fresh uuid; the match is on format alone.
export_show(show_data, format, export_id) ==
    CASE format = "lume" ->
           Ok(<<"Exported show as LUME format with ID: ", export_id>>)
      [] format = "csv" ->
           Ok(<<"Exported timing data as CSV with ID: ", export_id>>)
      [] OTHER ->
           Err(<<"Unsupported export format: ", format>>)

\* test_controller_connection: Ok(true) for every address.
test_controller_connection(address) == Ok(TRUE)

\* ----------------------------------------------------------------- actions

Call(cmd, args, result) == [cmd |-> cmd, args |-> args, result |-> result]

Init == history = <<>>

InvokeStartShow ==
    /\ Len(history) < MaxCalls
    /\ \E show_data \in ShowData :
         history' = Append(history,
                           Call("start_show", <<show_data>>, start_show(show_data)))

InvokeStopShow ==
    /\ Len(history) < MaxCalls
    /\ history' = Append(history, Call("stop_show", <<>>, stop_show))

InvokeGetShowStatus ==
    /\ Len(history) < MaxCalls
    /\ history' = Append(history, Call("get_show_status", <<>>, get_show_status))

InvokeValidateShowData ==
    /\ Len(history) < MaxCalls
    /\ \E show_data \in ShowData :
         history' = Append(history,
                           Call("validate_show_data", <<show_data>>,
                                validate_show_data(show_data)))

InvokeExportShow ==
    /\ Len(history) < MaxCalls
    /\ \E show_data \in ShowData, format \in Formats, export_id \in ExportIds :
         history' = Append(history,
                           Call("export_show", <<show_data, format>>,
                                export_show(show_data, format, export_id)))

InvokeTestControllerConnection ==
    /\ Len(history) < MaxCalls
    /\ \E address \in Addresses :
         history' = Append(history,
                           Call("test_controller_connection", <<address>>,
                                test_controller_connection(address)))

Next ==
    \/ InvokeStartShow
    \/ InvokeStopShow
    \/ InvokeGetShowStatus
    \/ InvokeValidateShowData
    \/ InvokeExportShow
    \/ InvokeTestControllerConnection

Spec == Init /\ [][Next]_vars

\* ------------------------------------------------------------------ claims

Calls == 1..Len(history)

\* Invocation j is made while a show is started.
StartedBefore(j) == ShowStarted(SubSeq(history, 1, j-1))

\* Invocations i < j lie in one playing period: a start_show returned Ok
\* before i, and no stop_show and no further start_show lies between that
\* start and j.
SamePlayingPeriod(i, j) ==
    /\ i < j
    /\ \E s \in 1..(i-1) :
        /\ history[s].cmd = "start_show"
        /\ history[s].result.ok
        /\ \A k \in (s+1)..j : history[k].cmd \notin {"start_show", "stop_show"}

\* i < j are consecutive status snapshots.
ConsecutiveSnapshots(i, j) ==
    /\ i < j
    /\ history[i].cmd = "get_show_status"
    /\ history[j].cmd = "get_show_status"
    /\ \A k \in (i+1)..(j-1) : history[k].cmd # "get_show_status"

\* A validation report contains an Error: one of its checks is false.
ReportHasError(report) ==
    \/ ~report.timing_valid
    \/ ~report.effects_valid
    \/ ~report.controllers_available

\* C1: start is legal only from Idle or Stopped: a start_show issued while
\* a show is already started (no stop_show since the last successful
\* start_show) returns an error rather than Ok.
C1_SecondStartFails ==
    \A j \in Calls :
        (history[j].cmd = "start_show" /\ StartedBefore(j))
            => ~history[j].result.ok

\* C2: a show whose validation report contains an Error never starts: once
\* validate_show_data has reported an Error for some show data, a
\* start_show on that show data does not succeed.
C2_InvalidShowNeverStarts ==
    \A i \in Calls, j \in Calls :
        ( /\ i < j
          /\ history[i].cmd = "validate_show_data"
          /\ history[i].result.ok
          /\ ReportHasError(history[i].result.value)
          /\ history[j].cmd = "start_show"
          /\ history[j].args = history[i].args )
            => ~history[j].result.ok

\* C6: of two consecutive status snapshots taken in the same playing period
\* (after a successful start_show, with no stop_show or restart up to the
\* later one), the later reports a current_time >= the earlier one's.
C6_CurrentTimeMonotonic ==
    \A i \in Calls, j \in Calls :
        (ConsecutiveSnapshots(i, j) /\ SamePlayingPeriod(i, j))
            => /\ history[i].result.ok
               /\ history[j].result.ok
               /\ history[j].result.value.current_time
                    >= history[i].result.value.current_time

\* C6 witness: a show was started and two consecutive snapshots were taken
\* before any stop or restart.
C6_Witness ==
    \E i \in Calls, j \in Calls :
        ConsecutiveSnapshots(i, j) /\ SamePlayingPeriod(i, j)

C10_HandlersStateless ==
    \A j \in Calls :
        /\ history[j].cmd = "get_show_status" =>
              /\ history[j].result.ok
              /\ history[j].result.value \in ShowStatus
              /\ ~history[j].result.value.is_running
              /\ history[j].result.value.current_time = 0
              /\ history[j].result.value.total_duration = 0
              /\ history[j].result.value.active_effects = <<>>
        /\ history[j].cmd \in {"start_show", "stop_show"} =>
              history[j].result.ok

\* C10 witness: a full history holding both a status query made while a
\* show is started and a second start_show made while a show is started.
C10_Witness ==
    /\ Len(history) = MaxCalls
    /\ \E i \in Calls, j \in Calls :
        /\ i < j
        /\ history[i].cmd = "start_show"
        /\ history[j].cmd = "get_show_status"
        /\ StartedBefore(j)
    /\ \E j \in Calls : history[j].cmd = "start_show" /\ StartedBefore(j)

=============================================================================
